---- MODULE Spec2Model ----
(***************************************************************************)
(* Dermazeen skin-assessment expert system: the forward-chaining engine    *)
(* (apps/shared/expert_system/rules.py), its scorer and analyzers          *)
(* (scoring.py, recommendations.py) and the session wrapper (services.py). *)
(*                                                                         *)
(* A fact is a record [k, q, v, c]: kind, name, integer value, confidence. *)
(* The working memory is a sequence of facts in declaration order, so the  *)
(* position of a fact plays the part of its fact id.  An activation is a   *)
(* record [rule, fs]: a rule and the set of facts it matched.  ConfidenceFactor *)
(* facts are matched by no rule and are left out of the working memory.    *)
(***************************************************************************)
EXTENDS Integers, Sequences, FiniteSets, TLC

\* ------------------------------------------------------------------------
\* Phases (QuestionPhase) and the question catalog (QuestionTemplate rows)
\* ------------------------------------------------------------------------
PhaseOrder ==
    << "SCREENING", "BASIC_INFO", "SPECIFIC_CONDITION", "OILINESS_ASSESSMENT",
       "SENSITIVITY_ASSESSMENT", "HYDRATION_ASSESSMENT", "LIFESTYLE",
       "ANALYSIS", "COMPLETE" >>

QuestionPhase == { PhaseOrder[i] : i \in 1..Len(PhaseOrder) }

PhaseIndex(p) == CHOOSE i \in 1..Len(PhaseOrder) : PhaseOrder[i] = p

\* question name -> number of options
QUESTIONS_DICT ==
    [ screening_main |-> 9, condition_duration |-> 5, condition_severity |-> 4,
      previous_treatments |-> 5, age |-> 5, gender |-> 3, skin_tone |-> 5,
      family_history |-> 7, vitiligo_spots |-> 5, vitiligo_location |-> 8,
      eczema_location |-> 8, rosacea_redness |-> 5, rosacea_triggers |-> 8,
      eczema_itching |-> 5, eczema_triggers |-> 8, melasma_patches |-> 5,
      melasma_location |-> 7, melasma_triggers |-> 7,
      melasma_pregnancy_hormones |-> 7, t_zone_oiliness |-> 5,
      cheek_oiliness |-> 5, pore_size |-> 5, product_sensitivity |-> 5,
      environmental_sensitivity |-> 5, dryness_feeling |-> 5,
      moisturizer_response |-> 5, menstrual_cycle_acne |-> 5,
      hormonal_birth_control |-> 5, fragrance_sensitivity |-> 5,
      preservative_sensitivity |-> 5, metal_sensitivity |-> 5,
      botanical_sensitivity |-> 5, sun_exposure |-> 5, stress_level |-> 5,
      sleep_quality |-> 5 ]

Catalog == DOMAIN QUESTIONS_DICT

MultiSelect ==
    { "previous_treatments", "family_history", "vitiligo_location",
      "eczema_location", "rosacea_triggers", "eczema_triggers",
      "melasma_location", "melasma_triggers", "melasma_pregnancy_hormones" }

NoQuestion == "none"

\* ------------------------------------------------------------------------
\* Facts (expert_system/models.py)
\* ------------------------------------------------------------------------
Fact(k, q, v, c) == [k |-> k, q |-> q, v |-> v, c |-> c]

CurrentPhase(p) == Fact("CurrentPhase", p, 0, 0)
QuestionAsked(q) == Fact("QuestionAsked", q, 0, 0)
UserResponse(q, v) == Fact("UserResponse", q, v, 0)
MedicalReferralRequired(cr) == Fact("MedicalReferralRequired", cr, 0, 0)
LifestyleDataProcessed == Fact("LifestyleDataProcessed", "", 0, 0)
RecommendationGenerated == Fact("RecommendationGenerated", "", 0, 0)
ConditionExcluded(c) == Fact("ConditionExcluded", c, 0, 0)

Range(s) == { s[i] : i \in 1..Len(s) }

OfKind(F, k) == { f \in F : f.k = k }

URs(F, q) == { f \in F : f.k = "UserResponse" /\ f.q = q }

\* KnowledgeEngine.declare: a fact equal to a live one is not inserted again
Declare(facts, f) == IF f \in Range(facts) THEN facts ELSE Append(facts, f)

RECURSIVE DeclareAll(_, _)
DeclareAll(facts, fs) ==
    IF fs = << >> THEN facts
    ELSE DeclareAll(Declare(facts, Head(fs)), Tail(fs))

Retract(facts, f) == SelectSeq(facts, LAMBDA x : x # f)

\* ------------------------------------------------------------------------
\* Rules: salience and matching (the @Rule decorators of rules.py)
\* ------------------------------------------------------------------------
Act(r, fs) == [rule |-> r, fs |-> fs]

\* @Rule(CurrentPhase(p), NOT(QuestionAsked(q)))
AskInPhase(F, r, p, q) ==
    IF CurrentPhase(p) \in F /\ QuestionAsked(q) \notin F
    THEN { Act(r, {CurrentPhase(p)}) } ELSE {}

\* the TEST(lambda ...) of a rule on the value of the matched answer
Passes(t, v) ==
    CASE t.op = "ne" -> v # t.n
      [] t.op = "eq" -> v = t.n
      [] t.op = "gt" -> v > t.n
      [] t.op = "ge" -> v >= t.n

\* @Rule(UserResponse(src, v), TEST(t on v), NOT(QuestionAsked(q)))
AskOnAnswer(F, r, src, t, q) ==
    IF QuestionAsked(q) \in F THEN {}
    ELSE { Act(r, {u}) : u \in { x \in URs(F, src) : Passes(t, x.v) } }

\* @Rule(CurrentPhase(p), UserResponse(src, v), TEST(...), NOT(QuestionAsked(q)))
AskInPhaseOnAnswer(F, r, p, src, t, q) ==
    IF CurrentPhase(p) \in F /\ QuestionAsked(q) \notin F
    THEN { Act(r, {CurrentPhase(p), u}) : u \in { x \in URs(F, src) : Passes(t, x.v) } }
    ELSE {}

\* a phase move that matches on the phase alone, without its QuestionAsked patterns
WhenAllAskedUngated(F, r, p, qs) ==
    IF CurrentPhase(p) \in F
    THEN { Act(r, {CurrentPhase(p)}) }
    ELSE {}

\* @Rule(CurrentPhase(p), QuestionAsked(q1), ..., QuestionAsked(qn))
WhenAllAsked(F, r, p, qs) ==
    IF CurrentPhase(p) \in F /\ \A q \in qs : QuestionAsked(q) \in F
    THEN { Act(r, {CurrentPhase(p)} \cup { QuestionAsked(q) : q \in qs }) }
    ELSE {}

\* the screening rules with ask_condition_duration matching any screening answer
ScreeningRulesAnyChoice(F) ==
    AskInPhase(F, "ask_screening_question", "SCREENING", "screening_main")
    \cup AskOnAnswer(F, "ask_condition_duration", "screening_main",
                     [op |-> "ge", n |-> 1], "condition_duration")
    \cup AskOnAnswer(F, "ask_condition_severity", "screening_main",
                     [op |-> "ne", n |-> 1], "condition_severity")
    \cup AskOnAnswer(F, "ask_previous_treatments", "screening_main",
                     [op |-> "ne", n |-> 1], "previous_treatments")
    \cup ( IF CurrentPhase("SCREENING") \in F /\ QuestionAsked("screening_main") \in F
           THEN { Act("move_to_basic_info",
                      {CurrentPhase("SCREENING"), QuestionAsked("screening_main"), u}) :
                    u \in { x \in URs(F, "screening_main") : x.v = 1 } }
                \cup WhenAllAsked(F, "move_to_basic_info", "SCREENING",
                        {"screening_main", "condition_duration",
                         "condition_severity", "previous_treatments"})
           ELSE {} )

\* the rules of phase 1
ScreeningRules(F) ==
    AskInPhase(F, "ask_screening_question", "SCREENING", "screening_main")
    \cup AskOnAnswer(F, "ask_condition_duration", "screening_main",
                     [op |-> "ne", n |-> 1], "condition_duration")
    \cup AskOnAnswer(F, "ask_condition_severity", "screening_main",
                     [op |-> "ne", n |-> 1], "condition_severity")
    \cup AskOnAnswer(F, "ask_previous_treatments", "screening_main",
                     [op |-> "ne", n |-> 1], "previous_treatments")
    \cup ( IF CurrentPhase("SCREENING") \in F /\ QuestionAsked("screening_main") \in F
           THEN { Act("move_to_basic_info",
                      {CurrentPhase("SCREENING"), QuestionAsked("screening_main"), u}) :
                    u \in { x \in URs(F, "screening_main") : x.v = 1 } }
                \cup WhenAllAsked(F, "move_to_basic_info", "SCREENING",
                        {"screening_main", "condition_duration",
                         "condition_severity", "previous_treatments"})
           ELSE {} )

BasicInfoRules(F) ==
    AskInPhase(F, "ask_age", "BASIC_INFO", "age")
    \cup AskInPhase(F, "ask_gender", "BASIC_INFO", "gender")
    \cup AskInPhase(F, "ask_skin_tone", "BASIC_INFO", "skin_tone")
    \cup AskInPhase(F, "ask_family_history", "BASIC_INFO", "family_history")
    \cup WhenAllAsked(F, "move_to_specific_conditions", "BASIC_INFO",
                      {"age", "gender", "skin_tone", "family_history"})

HasFemale(F) == UserResponse("gender", 2) \in F

SpecificConditionRules(F) ==
    AskInPhaseOnAnswer(F, "ask_vitiligo_spots_from_screening", "SPECIFIC_CONDITION",
                       "screening_main", [op |-> "eq", n |-> 2], "vitiligo_spots")
    \cup AskInPhaseOnAnswer(F, "ask_vitiligo_spots_from_family", "SPECIFIC_CONDITION",
                       "family_history", [op |-> "eq", n |-> 2], "vitiligo_spots")
    \cup AskOnAnswer(F, "ask_vitiligo_location", "vitiligo_spots",
                     [op |-> "gt", n |-> 1], "vitiligo_location")
    \cup { Act("detect_vitiligo_facial_involvement", {u}) :
             u \in { x \in URs(F, "vitiligo_location") : x.v \in {1, 5} } }
    \cup AskInPhaseOnAnswer(F, "ask_rosacea_redness_from_screening", "SPECIFIC_CONDITION",
                       "screening_main", [op |-> "eq", n |-> 3], "rosacea_redness")
    \cup AskInPhaseOnAnswer(F, "ask_rosacea_redness_from_family", "SPECIFIC_CONDITION",
                       "family_history", [op |-> "eq", n |-> 3], "rosacea_redness")
    \cup AskOnAnswer(F, "ask_rosacea_triggers", "rosacea_redness",
                     [op |-> "gt", n |-> 1], "rosacea_triggers")
    \cup AskInPhaseOnAnswer(F, "ask_eczema_itching_from_screening", "SPECIFIC_CONDITION",
                       "screening_main", [op |-> "eq", n |-> 4], "eczema_itching")
    \cup AskInPhaseOnAnswer(F, "ask_eczema_itching_from_family", "SPECIFIC_CONDITION",
                       "family_history", [op |-> "eq", n |-> 4], "eczema_itching")
    \cup AskOnAnswer(F, "ask_eczema_location", "eczema_itching",
                     [op |-> "gt", n |-> 1], "eczema_location")
    \cup AskOnAnswer(F, "ask_eczema_triggers", "eczema_itching",
                     [op |-> "gt", n |-> 1], "eczema_triggers")
    \cup { Act("detect_eczema_facial_involvement", {u}) :
             u \in { x \in URs(F, "eczema_location") : x.v = 1 } }
    \cup { Act("detect_severe_eczema_itching", {u}) :
             u \in { x \in URs(F, "eczema_itching") : x.v >= 4 } }
    \cup AskInPhaseOnAnswer(F, "ask_melasma_patches_from_screening", "SPECIFIC_CONDITION",
                       "screening_main", [op |-> "eq", n |-> 8], "melasma_patches")
    \cup ( IF CurrentPhase("SPECIFIC_CONDITION") \in F /\ HasFemale(F)
              /\ QuestionAsked("melasma_patches") \notin F
           THEN { Act("ask_melasma_patches_female_adult",
                      {CurrentPhase("SPECIFIC_CONDITION"), UserResponse("gender", 2), a, s}) :
                    a \in { x \in URs(F, "age") : x.v >= 2 },
                    s \in { x \in URs(F, "screening_main") : x.v # 1 } }
           ELSE {} )
    \cup AskOnAnswer(F, "ask_melasma_location", "melasma_patches",
                     [op |-> "gt", n |-> 1], "melasma_location")
    \cup AskOnAnswer(F, "ask_melasma_triggers", "melasma_patches",
                     [op |-> "gt", n |-> 1], "melasma_triggers")
    \cup ( IF HasFemale(F) /\ QuestionAsked("melasma_pregnancy_hormones") \notin F
           THEN { Act("ask_melasma_pregnancy_hormones", {u, UserResponse("gender", 2)}) :
                    u \in { x \in URs(F, "melasma_patches") : x.v > 1 } }
           ELSE {} )
    \cup ( IF CurrentPhase("SPECIFIC_CONDITION") \in F /\ HasFemale(F)
              /\ QuestionAsked("menstrual_cycle_acne") \notin F
           THEN { Act("ask_menstrual_cycle_acne_from_screening",
                      {CurrentPhase("SPECIFIC_CONDITION"), u, UserResponse("gender", 2)}) :
                    u \in { x \in URs(F, "screening_main") : x.v = 6 } }
           ELSE {} )
    \cup AskOnAnswer(F, "ask_hormonal_birth_control", "menstrual_cycle_acne",
                     [op |-> "gt", n |-> 1], "hormonal_birth_control")
    \cup ( IF CurrentPhase("SPECIFIC_CONDITION") \in F
           THEN { Act("move_to_oiliness_assessment", {CurrentPhase("SPECIFIC_CONDITION")}) }
           ELSE {} )

OilinessRules(F) ==
    AskInPhase(F, "ask_t_zone_oiliness", "OILINESS_ASSESSMENT", "t_zone_oiliness")
    \cup AskInPhase(F, "ask_cheek_oiliness", "OILINESS_ASSESSMENT", "cheek_oiliness")
    \cup AskInPhase(F, "ask_pore_size", "OILINESS_ASSESSMENT", "pore_size")
    \cup ( IF HasFemale(F) /\ QuestionAsked("menstrual_cycle_acne") \notin F
           THEN { Act("ask_menstrual_cycle_acne_from_oiliness", {u, UserResponse("gender", 2)}) :
                    u \in { x \in URs(F, "t_zone_oiliness") : x.v >= 4 } }
           ELSE {} )
    \cup WhenAllAsked(F, "move_to_sensitivity_assessment", "OILINESS_ASSESSMENT",
                      {"t_zone_oiliness", "cheek_oiliness", "pore_size"})

\* move_to_hydration_assessment: the first UserResponse pattern (value 1) is a
\* conjunct of the whole rule; the OR branches only add facts to the match
MoveToHydrationMatches(F) ==
    IF CurrentPhase("SENSITIVITY_ASSESSMENT") \notin F THEN {}
    ELSE LET P == CurrentPhase("SENSITIVITY_ASSESSMENT")
             ones == { x \in URs(F, "product_sensitivity") : x.v = 1 }
             twos == { x \in URs(F, "product_sensitivity") : x.v = 2 }
         IN  { Act("move_to_hydration_assessment", {P, u, u2}) : u \in ones, u2 \in ones }
             \cup ( IF QuestionAsked("fragrance_sensitivity") \notin F
                    THEN { Act("move_to_hydration_assessment", {P, u, u3}) :
                             u \in ones, u3 \in twos }
                    ELSE {} )
             \cup ( IF QuestionAsked("botanical_sensitivity") \in F
                    THEN { Act("move_to_hydration_assessment",
                               {P, u, QuestionAsked("botanical_sensitivity")}) : u \in ones }
                    ELSE {} )

SensitivityRules(F) ==
    AskInPhase(F, "ask_product_sensitivity", "SENSITIVITY_ASSESSMENT", "product_sensitivity")
    \cup AskOnAnswer(F, "ask_environmental_sensitivity", "product_sensitivity",
                     [op |-> "gt", n |-> 1], "environmental_sensitivity")
    \cup AskInPhaseOnAnswer(F, "ask_fragrance_sensitivity_detailed", "SENSITIVITY_ASSESSMENT",
                     "product_sensitivity", [op |-> "ge", n |-> 3], "fragrance_sensitivity")
    \cup ( IF QuestionAsked("preservative_sensitivity") \notin F
           THEN WhenAllAsked(F, "ask_preservative_sensitivity_detailed",
                             "SENSITIVITY_ASSESSMENT", {"fragrance_sensitivity"})
           ELSE {} )
    \cup ( IF QuestionAsked("metal_sensitivity") \notin F
           THEN WhenAllAsked(F, "ask_metal_sensitivity_detailed",
                             "SENSITIVITY_ASSESSMENT", {"preservative_sensitivity"})
           ELSE {} )
    \cup ( IF QuestionAsked("botanical_sensitivity") \notin F
           THEN WhenAllAsked(F, "ask_botanical_sensitivity_detailed",
                             "SENSITIVITY_ASSESSMENT", {"metal_sensitivity"})
           ELSE {} )
    \cup MoveToHydrationMatches(F)

HydrationRules(F) ==
    AskInPhase(F, "ask_dryness_feeling", "HYDRATION_ASSESSMENT", "dryness_feeling")
    \cup AskOnAnswer(F, "ask_moisturizer_response", "dryness_feeling",
                     [op |-> "gt", n |-> 1], "moisturizer_response")
    \cup ( IF CurrentPhase("HYDRATION_ASSESSMENT") \in F /\ QuestionAsked("dryness_feeling") \in F
           THEN LET base == {CurrentPhase("HYDRATION_ASSESSMENT"), QuestionAsked("dryness_feeling")}
                IN  ( IF UserResponse("dryness_feeling", 1) \in F
                      THEN { Act("move_to_lifestyle_assessment",
                                 base \cup {UserResponse("dryness_feeling", 1)}) }
                      ELSE {} )
                    \cup ( IF QuestionAsked("moisturizer_response") \in F
                           THEN { Act("move_to_lifestyle_assessment",
                                      base \cup {QuestionAsked("moisturizer_response")}) }
                           ELSE {} )
           ELSE {} )

AnalysisRules(F) ==
    ( IF CurrentPhase("LIFESTYLE") \in F /\ LifestyleDataProcessed \notin F
      THEN { Act("process_lifestyle_data", {CurrentPhase("LIFESTYLE")}) } ELSE {} )
    \cup ( IF CurrentPhase("ANALYSIS") \in F /\ OfKind(F, "ConditionScore") = {}
           THEN { Act("calculate_condition_scores", {CurrentPhase("ANALYSIS")}) } ELSE {} )
    \cup ( IF CurrentPhase("ANALYSIS") \in F /\ OfKind(F, "SkinProfile") = {}
           THEN { Act("determine_skin_profile", {CurrentPhase("ANALYSIS"), c}) :
                    c \in OfKind(F, "ConditionScore") }
           ELSE {} )
    \cup ( IF CurrentPhase("ANALYSIS") \in F /\ RecommendationGenerated \notin F
           THEN { Act("generate_recommendations", {CurrentPhase("ANALYSIS"), c, s}) :
                    c \in OfKind(F, "ConditionScore"), s \in OfKind(F, "SkinProfile") }
           ELSE {} )
    \cup ( IF CurrentPhase("ANALYSIS") \in F /\ RecommendationGenerated \in F
           THEN { Act("move_to_complete", {CurrentPhase("ANALYSIS"), RecommendationGenerated}) }
           ELSE {} )
    \cup ( IF CurrentPhase("COMPLETE") \in F
           THEN { Act("display_results", {CurrentPhase("COMPLETE")}) } ELSE {} )

\* every activation the working memory F supports
Matches(F) ==
    ScreeningRules(F) \cup BasicInfoRules(F) \cup SpecificConditionRules(F)
    \cup OilinessRules(F) \cup SensitivityRules(F) \cup HydrationRules(F)
    \cup AnalysisRules(F)

Salience ==
    [ ask_screening_question |-> 100, ask_condition_duration |-> 90,
      ask_condition_severity |-> 90, ask_previous_treatments |-> 85,
      move_to_basic_info |-> 80, ask_age |-> 75, ask_gender |-> 75,
      ask_skin_tone |-> 70, ask_family_history |-> 85,
      move_to_specific_conditions |-> 70,
      ask_vitiligo_spots_from_screening |-> 95, ask_vitiligo_spots_from_family |-> 90,
      ask_vitiligo_location |-> 90, detect_vitiligo_facial_involvement |-> 100,
      ask_rosacea_redness_from_screening |-> 90, ask_rosacea_redness_from_family |-> 85,
      ask_rosacea_triggers |-> 85, ask_eczema_itching_from_screening |-> 90,
      ask_eczema_itching_from_family |-> 85, ask_eczema_location |-> 88,
      ask_eczema_triggers |-> 82, detect_eczema_facial_involvement |-> 100,
      detect_severe_eczema_itching |-> 95, ask_melasma_patches_from_screening |-> 90,
      ask_melasma_patches_female_adult |-> 85, ask_melasma_location |-> 88,
      ask_melasma_triggers |-> 85, ask_melasma_pregnancy_hormones |-> 82,
      ask_menstrual_cycle_acne_from_screening |-> 85, ask_hormonal_birth_control |-> 80,
      move_to_oiliness_assessment |-> 50, ask_t_zone_oiliness |-> 75,
      ask_cheek_oiliness |-> 75, ask_pore_size |-> 70,
      ask_menstrual_cycle_acne_from_oiliness |-> 85,
      move_to_sensitivity_assessment |-> 65, ask_product_sensitivity |-> 80,
      ask_environmental_sensitivity |-> 75, ask_fragrance_sensitivity_detailed |-> 75,
      ask_preservative_sensitivity_detailed |-> 70, ask_metal_sensitivity_detailed |-> 70,
      ask_botanical_sensitivity_detailed |-> 70, move_to_hydration_assessment |-> 60,
      ask_dryness_feeling |-> 75, ask_moisturizer_response |-> 70,
      move_to_lifestyle_assessment |-> 65, process_lifestyle_data |-> 100,
      calculate_condition_scores |-> 90, determine_skin_profile |-> 85,
      generate_recommendations |-> 80, move_to_complete |-> 75,
      display_results |-> 100 ]

\* the question an ask rule passes to _ask
AskedBy ==
    [ ask_screening_question |-> "screening_main",
      ask_condition_duration |-> "condition_duration",
      ask_condition_severity |-> "condition_severity",
      ask_previous_treatments |-> "previous_treatments",
      ask_age |-> "age", ask_gender |-> "gender", ask_skin_tone |-> "skin_tone",
      ask_family_history |-> "family_history",
      ask_vitiligo_spots_from_screening |-> "vitiligo_spots",
      ask_vitiligo_spots_from_family |-> "vitiligo_spots",
      ask_vitiligo_location |-> "vitiligo_location",
      ask_rosacea_redness_from_screening |-> "rosacea_redness",
      ask_rosacea_redness_from_family |-> "rosacea_redness",
      ask_rosacea_triggers |-> "rosacea_triggers",
      ask_eczema_itching_from_screening |-> "eczema_itching",
      ask_eczema_itching_from_family |-> "eczema_itching",
      ask_eczema_location |-> "eczema_location",
      ask_eczema_triggers |-> "eczema_triggers",
      ask_melasma_patches_from_screening |-> "melasma_patches",
      ask_melasma_patches_female_adult |-> "melasma_patches",
      ask_melasma_location |-> "melasma_location",
      ask_melasma_triggers |-> "melasma_triggers",
      ask_melasma_pregnancy_hormones |-> "melasma_pregnancy_hormones",
      ask_menstrual_cycle_acne_from_screening |-> "menstrual_cycle_acne",
      ask_hormonal_birth_control |-> "hormonal_birth_control",
      ask_t_zone_oiliness |-> "t_zone_oiliness", ask_cheek_oiliness |-> "cheek_oiliness",
      ask_pore_size |-> "pore_size",
      ask_menstrual_cycle_acne_from_oiliness |-> "menstrual_cycle_acne",
      ask_product_sensitivity |-> "product_sensitivity",
      ask_environmental_sensitivity |-> "environmental_sensitivity",
      ask_fragrance_sensitivity_detailed |-> "fragrance_sensitivity",
      ask_preservative_sensitivity_detailed |-> "preservative_sensitivity",
      ask_metal_sensitivity_detailed |-> "metal_sensitivity",
      ask_botanical_sensitivity_detailed |-> "botanical_sensitivity",
      ask_dryness_feeling |-> "dryness_feeling",
      ask_moisturizer_response |-> "moisturizer_response" ]

\* the phase a transition rule passes to _change_phase
\* the transitions with move_to_basic_info passing over BASIC_INFO
MovesToSkipping ==
    [ move_to_basic_info |-> "SPECIFIC_CONDITION",
      move_to_specific_conditions |-> "SPECIFIC_CONDITION",
      move_to_oiliness_assessment |-> "OILINESS_ASSESSMENT",
      move_to_sensitivity_assessment |-> "SENSITIVITY_ASSESSMENT",
      move_to_hydration_assessment |-> "HYDRATION_ASSESSMENT",
      move_to_lifestyle_assessment |-> "LIFESTYLE",
      move_to_complete |-> "COMPLETE" ]

\* the phase each transition rule passes to _change_phase
MovesTo ==
    [ move_to_basic_info |-> "BASIC_INFO",
      move_to_specific_conditions |-> "SPECIFIC_CONDITION",
      move_to_oiliness_assessment |-> "OILINESS_ASSESSMENT",
      move_to_sensitivity_assessment |-> "SENSITIVITY_ASSESSMENT",
      move_to_hydration_assessment |-> "HYDRATION_ASSESSMENT",
      move_to_lifestyle_assessment |-> "LIFESTYLE",
      move_to_complete |-> "COMPLETE" ]

\* ------------------------------------------------------------------------
\* Answer values held in user_responses: a Python int or a Python list
\* ------------------------------------------------------------------------
Scalar(n) == [list |-> FALSE, s |-> << n >>]
ListVal(s) == [list |-> TRUE, s |-> s]

NoResponses == [q \in {} |-> Scalar(1)]

Put(r, k, val) == [x \in (DOMAIN r) \cup {k} |-> IF x = k THEN val ELSE r[x]]

Elems(val) == Range(val.s)

\* ConditionScorer._safe_get with an integer default: the first element of a list
SafeGet(r, k, d) ==
    IF k \notin DOMAIN r THEN d
    ELSE IF r[k].s = << >> THEN d ELSE r[k].s[1]

\* dict.get(k, d) or d, read as a number (the value itself, or a list as such)
IsListAt(r, k) == k \in DOMAIN r /\ r[k].list
Present(r, k) == k \in DOMAIN r /\ r[k].s # << >>
\* "n in value" for a list value, "value == n" for an int value
Holds(r, k, n) == Present(r, k) /\ n \in Elems(r[k])

\* ------------------------------------------------------------------------
\* ConditionScorer (scoring.py): score in points, cf in millionths
\* ------------------------------------------------------------------------
CfUnit == 1000000

SkinConditionRows ==
    { "Vitiligo", "Rosacea", "Eczema", "Psoriasis", "Acne", "Contact dermatitis", "Melasma" }

\* order of dict iteration: the table rows, then the keys in order of first update
ScoreKeyOrder ==
    << "Vitiligo", "Rosacea", "Eczema", "Psoriasis", "Acne", "Contact dermatitis",
       "Melasma", "vitiligo", "rosacea", "eczema", "psoriasis", "severe_acne", "melasma" >>

ScorerInit == [c \in SkinConditionRows |-> [score |-> 0, cf |-> 0]]

NoScores == [c \in {} |-> [score |-> 0, cf |-> 0]]

Min(a, b) == IF a < b THEN a ELSE b

\* _update_condition_score; conf is the confidence in tenths
UpdateConditionScore(sc, cond, points, conf) ==
    LET cur == IF cond \in DOMAIN sc THEN sc[cond] ELSE [score |-> 0, cf |-> 0]
        c == conf * (CfUnit \div 10)
        newcf == IF cur.cf = 0 THEN c
                 ELSE cur.cf + (conf * (CfUnit - cur.cf)) \div 10
        new == [score |-> Min(cur.score + points, 100), cf |-> Min(newcf, CfUnit)]
    IN  [x \in (DOMAIN sc) \cup {cond} |-> IF x = cond THEN new ELSE sc[x]]

UpdIf(b, sc, cond, points, conf) ==
    IF b THEN UpdateConditionScore(sc, cond, points, conf) ELSE sc

\* _safe_get(responses, key, []) is a list only when the answer is absent, and
\* then it is empty: the "in"/len branches see nothing, the == branches the
\* first element
FirstIs(r, k, n) == Present(r, k) /\ r[k].s[1] = n

CalcVitiligo(sc, r) ==
    LET s1 == UpdIf(SafeGet(r, "screening_main", 1) = 2, sc, "vitiligo", 30, 9)
        s2 == UpdIf(FirstIs(r, "family_history", 2), s1, "vitiligo", 20, 7)
        spots == SafeGet(r, "vitiligo_spots", 1)
        s3 == UpdIf(spots > 1, s2, "vitiligo", 25 + (spots - 2) * 5,
                    IF spots >= 4 THEN 8 ELSE 6)
    IN  s3

CalcRosacea(sc, r) ==
    LET s1 == UpdIf(SafeGet(r, "screening_main", 1) = 3, sc, "rosacea", 30, 9)
        s2 == UpdIf(FirstIs(r, "family_history", 3), s1, "rosacea", 15, 6)
        red == SafeGet(r, "rosacea_redness", 1)
        s3 == UpdIf(red > 1, s2, "rosacea", red * 6, IF red >= 4 THEN 9 ELSE 7)
    IN  s3

CalcEczema(sc, r) ==
    LET s1 == UpdIf(SafeGet(r, "screening_main", 1) = 4, sc, "eczema", 30, 9)
        s2 == UpdIf(Holds(r, "family_history", 4), s1, "eczema", 15, 7)
        itch == SafeGet(r, "eczema_itching", 1)
        s3 == UpdIf(itch > 1, s2, "eczema", itch * 6, IF itch >= 4 THEN 9 ELSE 7)
        s4 == UpdIf(SafeGet(r, "product_sensitivity", 1) >= 4, s3, "eczema", 15, 6)
        manyTriggers == IsListAt(r, "eczema_triggers") /\ Len(r["eczema_triggers"].s) > 2
        s5 == UpdIf(manyTriggers, s4, "eczema",
                    IF manyTriggers THEN Len(r["eczema_triggers"].s) * 2 ELSE 0, 7)
    IN  s5

CalcPsoriasis(sc, r) ==
    LET s1 == UpdIf(SafeGet(r, "screening_main", 1) = 5, sc, "psoriasis", 30, 9)
        s2 == UpdIf(FirstIs(r, "family_history", 5), s1, "psoriasis", 20, 8)
    IN  s2

CalcAcne(sc, r) ==
    LET s1 == UpdIf(SafeGet(r, "screening_main", 1) = 6, sc, "severe_acne", 30, 9)
        tz == SafeGet(r, "t_zone_oiliness", 1)
        s2 == UpdIf(tz >= 4, s1, "severe_acne", (tz - 3) * 10, IF tz = 5 THEN 8 ELSE 6)
        s3 == UpdIf(SafeGet(r, "pore_size", 1) >= 4, s2, "severe_acne", 15, 7)
        s4 == UpdIf(SafeGet(r, "stress_level", 1) >= 4, s3, "severe_acne", 10, 5)
        female == SafeGet(r, "gender", 1) = 2
        mc == SafeGet(r, "menstrual_cycle_acne", 1)
        s5 == UpdIf(female /\ mc >= 2, s4, "severe_acne",
                    IF mc >= 4 THEN 20 ELSE IF mc >= 3 THEN 15 ELSE 10,
                    IF mc >= 4 THEN 8 ELSE IF mc >= 3 THEN 7 ELSE 6)
        s6 == UpdIf(female /\ SafeGet(r, "hormonal_birth_control", 1) >= 2,
                    s5, "severe_acne", 5, 4)
    IN  s6

CalcMelasma(sc, r) ==
    LET s1 == UpdIf(SafeGet(r, "screening_main", 1) = 8, sc, "melasma", 20, 8)
        mp == SafeGet(r, "melasma_patches", 1)
        s2 == UpdIf(mp > 1, s1, "melasma",
                    IF mp = 2 THEN 8 ELSE IF mp = 3 THEN 15 ELSE IF mp = 4 THEN 25 ELSE 35,
                    IF mp = 2 THEN 6 ELSE IF mp = 3 THEN 7 ELSE IF mp = 4 THEN 8 ELSE 9)
        s3 == UpdIf(FirstIs(r, "melasma_location", 1), s2, "melasma", 5, 6)
        tr == SafeGet(r, "melasma_triggers", 0)
        s4 == UpdIf(tr \in {1, 2, 3}, s3, "melasma",
                    IF tr = 1 THEN 8 ELSE IF tr = 2 THEN 3 ELSE 6,
                    IF tr = 1 THEN 7 ELSE IF tr = 2 THEN 5 ELSE 6)
        gender == SafeGet(r, "gender", 1)
        ph == SafeGet(r, "melasma_pregnancy_hormones", 0)
        s5 == UpdIf(gender = 2 /\ ph > 1, s4, "melasma",
                    IF ph = 2 THEN 5 ELSE IF ph = 4 THEN 4 ELSE ph * 4,
                    IF ph = 2 THEN 6 ELSE 5)
        s6 == UpdIf(gender = 2, s5, "melasma", 3, 4)
        age == SafeGet(r, "age", 1)
        s7 == UpdIf(gender = 2 /\ age >= 2 /\ age <= 4, s6, "melasma", 2, 3)
        s8 == UpdIf(gender = 1, s7, "melasma", 0 - 3, 3)
        sun == SafeGet(r, "sun_exposure", 1)
        s9 == UpdIf(sun >= 3, s8, "melasma",
                    IF sun >= 4 THEN 8 ELSE 5, IF sun >= 4 THEN 7 ELSE 6)
    IN  s9

\* calculate_all_scores: each call adds to the scorer's own dictionary
CalculateAllScores(sc, r) ==
    CalcMelasma(CalcAcne(CalcPsoriasis(CalcEczema(CalcRosacea(CalcVitiligo(sc, r), r), r), r), r), r)

\* ------------------------------------------------------------------------
\* SeverityAnalyzer (scoring.py)
\* ------------------------------------------------------------------------
\* score * cf, in millionths of a point
Weighted(d) == d.score * d.cf

RECURSIVE MaxScan(_, _, _, _)
\* the loop of determine_severity_level: strictly greater replaces the maximum
MaxScan(sc, i, best, bestw) ==
    IF i > Len(ScoreKeyOrder) THEN [cond |-> best, w |-> bestw]
    ELSE LET c == ScoreKeyOrder[i]
         IN  IF c \in DOMAIN sc /\ Weighted(sc[c]) > bestw
             THEN MaxScan(sc, i + 1, c, Weighted(sc[c]))
             ELSE MaxScan(sc, i + 1, best, bestw)

MaxWeighted(sc) == MaxScan(sc, 1, "none", 0)

ScoreOf(sc, c) == IF c \in DOMAIN sc THEN sc[c].score ELSE 0

\* dict.get(k, 1) or 1, for an answer held as a number
NumOr(r, k, d) == SafeGet(r, k, d)

\* "1 in value" for a list, "value == 1" for an int
FaceOnly(r, k) == Holds(r, k, 1)
\* "1 in value or 5 in value" for a list, "value == 1" for an int
FaceOrEyes(r, k) ==
    IF IsListAt(r, k) THEN Holds(r, k, 1) \/ Holds(r, k, 5) ELSE Holds(r, k, 1)

CheckMedicalReferralConditions(sc, r) ==
    \/ ScoreOf(sc, "vitiligo") > 30 /\ FaceOrEyes(r, "vitiligo_location")
    \/ ScoreOf(sc, "eczema") > 30 /\ FaceOnly(r, "eczema_location")
    \/ ScoreOf(sc, "eczema") > 30 /\ NumOr(r, "eczema_itching", 1) >= 4

\* the treatment bonus, in tenths
TreatmentMultiplier(r) ==
    LET k == "previous_treatments"
    IN  IF ~Present(r, k) THEN 0
        ELSE IF r[k].list
             THEN IF Len(r[k].s) >= 3 \/ Holds(r, k, 4) \/ Holds(r, k, 5) THEN 3
                  ELSE IF Len(r[k].s) >= 2 \/ Holds(r, k, 3) THEN 2
                  ELSE IF Holds(r, k, 2) THEN 1 ELSE 0
             ELSE IF r[k].s[1] >= 4 THEN 3
                  ELSE IF r[k].s[1] >= 3 THEN 2
                  ELSE IF r[k].s[1] >= 2 THEN 1 ELSE 0

\* is_pregnancy_related: "2 in list" of melasma_pregnancy_hormones when that
\* value is a list (an absent answer is the empty list), else of melasma_triggers
IsPregnancyRelated(r) ==
    IF ~Present(r, "melasma_pregnancy_hormones") THEN FALSE
    ELSE IF IsListAt(r, "melasma_pregnancy_hormones")
         THEN Holds(r, "melasma_pregnancy_hormones", 2)
         ELSE IF ~Present(r, "melasma_triggers") THEN FALSE
              ELSE IsListAt(r, "melasma_triggers") /\ Holds(r, "melasma_triggers", 2)

\* determine_severity_level: [classification, primary, auto_referral]
DetermineSeverityLevel(sc, r) ==
    LET mx == MaxWeighted(sc)
        dur == NumOr(r, "condition_duration", 1)
        sev == NumOr(r, "condition_severity", 1)
        treat == TreatmentMultiplier(r)
        mult == 10 + (IF dur >= 5 THEN 3 ELSE IF dur >= 4 THEN 2 ELSE IF dur >= 3 THEN 1 ELSE 0)
                   + (IF sev >= 4 THEN 4 ELSE IF sev >= 3 THEN 2 ELSE IF sev >= 2 THEN 1 ELSE 0)
                   + treat
        \* adjusted_score >= t  <=>  mx.w * mult >= t * 10 * CfUnit
        AdjAtLeast(t) == mx.w * mult >= t * 10 * CfUnit
        WAtLeast(t) == mx.w >= t * CfUnit
        lenient == IsPregnancyRelated(r) /\ sev <= 2
        severe == IF lenient
                  THEN AdjAtLeast(90) \/ sev >= 4 \/ dur >= 5
                  ELSE AdjAtLeast(80) \/ sev >= 4 \/ (WAtLeast(70) /\ treat >= 3)
                       \/ (dur >= 5 /\ sev >= 3)
        moderate == IF lenient
                    THEN AdjAtLeast(70) \/ sev >= 3 \/ (dur >= 4 /\ WAtLeast(50))
                    ELSE AdjAtLeast(50) \/ sev >= 3 \/ WAtLeast(60)
                         \/ (dur >= 4 /\ WAtLeast(40))
    IN  IF CheckMedicalReferralConditions(sc, r)
        THEN [classification |-> "SEVERE", primary |-> mx.cond, auto_referral |-> TRUE]
        ELSE [classification |-> IF severe THEN "SEVERE"
                                 ELSE IF moderate THEN "MODERATE" ELSE "MILD",
              primary |-> IF mx.w > 20 * CfUnit THEN mx.cond ELSE "none",
              auto_referral |-> FALSE]

\* ------------------------------------------------------------------------
\* SkinProfileAnalyzer (scoring.py)
\* ------------------------------------------------------------------------
NoProfile == [type |-> "Unknown", sensitivity |-> "Unknown", hydration |-> "Unknown",
              allergens |-> {}]

DetermineSkinProfile(r) ==
    LET t == SafeGet(r, "t_zone_oiliness", 3)
        c == SafeGet(r, "cheek_oiliness", 3)
        ps == SafeGet(r, "product_sensitivity", 1)
        dry == SafeGet(r, "dryness_feeling", 1)
    IN  [ type |-> IF t <= 2 /\ c <= 2 THEN "Dry"
                   ELSE IF t >= 4 /\ c >= 4 THEN "Oily"
                   ELSE IF t >= 4 /\ c <= 3 THEN "Combination" ELSE "Normal",
          sensitivity |-> IF ps <= 2 THEN "Low" ELSE IF ps <= 3 THEN "Moderate" ELSE "High",
          hydration |-> IF dry <= 2 THEN "Well-hydrated"
                        ELSE IF dry <= 3 THEN "Moderate hydration needs"
                        ELSE "High hydration needs",
          allergens |->
              (IF SafeGet(r, "fragrance_sensitivity", 1) >= 4 THEN {"fragrances"} ELSE {})
              \cup (IF SafeGet(r, "preservative_sensitivity", 1) >= 3 THEN {"preservatives"} ELSE {})
              \cup (IF SafeGet(r, "metal_sensitivity", 1) >= 3 THEN {"metals"} ELSE {})
              \cup (IF SafeGet(r, "botanical_sensitivity", 1) >= 4 THEN {"botanicals"} ELSE {}) ]

\* ------------------------------------------------------------------------
\* RecommendationGenerator (recommendations.py): the blocks it appends
\* ------------------------------------------------------------------------
\* "x == n" on dict.get(k): a list never equals an int
GetEquals(r, k, n) == k \in DOMAIN r /\ ~r[k].list /\ r[k].s[1] = n

\* comparing dict.get(k) with a number raises TypeError when the answer is
\* absent (None) or a list
NotANumber(r, k) == k \notin DOMAIN r \/ r[k].list

\* _add_condition_specific_treatments raises in the severe_acne branch
RoutineRaises(classification, primary, r) ==
    /\ primary = "severe_acne"
    /\ classification # "SEVERE"
    /\ GetEquals(r, "gender", 2)
    /\ \/ NotANumber(r, "menstrual_cycle_acne")
       \/ /\ r["menstrual_cycle_acne"].s[1] > 1
          /\ classification = "MODERATE"
          /\ NotANumber(r, "hormonal_birth_control")

\* _generate_lifestyle_recommendations raises on a missing lifestyle answer
LifestyleRaises(r) ==
    \/ NotANumber(r, "sun_exposure")
    \/ NotANumber(r, "stress_level")
    \/ NotANumber(r, "sleep_quality")
    \/ ("menstrual_cycle_acne" \in DOMAIN r /\ r["menstrual_cycle_acne"].list)

\* generate_all_recommendations: the block names, or the exception
GenerateAllRecommendations(classification, primary, r, referral) ==
    LET medical == referral \/ classification = "SEVERE"
    IN  IF (~medical /\ RoutineRaises(classification, primary, r)) \/ LifestyleRaises(r)
        THEN [raised |-> TRUE, blocks |-> {}]
        ELSE [raised |-> FALSE,
              blocks |-> {IF medical THEN "Medical Referral" ELSE "Skincare Routine",
                          "Lifestyle Recommendations"}]

\* ------------------------------------------------------------------------
\* SkinAnalysisEngine (rules.py): attributes, agenda and rule actions
\* ------------------------------------------------------------------------
NoReport ==
    [ made |-> FALSE, referral |-> FALSE, severity |-> "UNKNOWN",
      classification |-> "", primary |-> "", conditions |-> {},
      profile |-> NoProfile, referral_block |-> FALSE, routine |-> FALSE,
      lifestyle |-> FALSE, is_female |-> FALSE ]

\* SkinAnalysisEngine.__init__ (and KnowledgeEngine.__init__: no facts, empty agenda)
NewEngine ==
    [ live |-> TRUE, facts |-> << >>, agenda |-> {}, halted |-> FALSE, raised |-> FALSE,
      asked_questions |-> {}, user_responses |-> NoResponses,
      pending_question |-> NoQuestion, analysis_result |-> NoReport,
      scorer |-> ScorerInit, scores_set |-> FALSE, skin_profile |-> NoProfile,
      profile_set |-> FALSE, condition_classification |-> "", primary_condition |-> "",
      medical_referral_required |-> FALSE, recommendations |-> {},
      messages |-> {}, phase_log |-> << >>, ask_log |-> << >> ]

NoEngine == [NewEngine EXCEPT !.live = FALSE]

\* engine.condition_scores: {} until calculate_condition_scores binds the scorer's dict
ConditionScores(e) == IF e.scores_set THEN e.scorer ELSE NoScores

Phases(e) == { f.q : f \in OfKind(Range(e.facts), "CurrentPhase") }

\* get_summary()["phase"]: the first CurrentPhase fact, None without one
SummaryPhase(e) ==
    LET is == { i \in 1..Len(e.facts) : e.facts[i].k = "CurrentPhase" }
    IN  IF is = {} THEN "" ELSE e.facts[CHOOSE i \in is : \A j \in is : i <= j].q

\* the agenda after the working memory went from `before` to the facts of e:
\* new matches are activated, lost matches dropped, fired ones never re-added
BothMatches(before, after) ==
    [isNew \in BOOLEAN |-> Matches(Range(IF isNew THEN after ELSE before))]

NewAgenda(agenda, m) == (agenda \cap m[TRUE]) \cup (m[TRUE] \ m[FALSE])

Refresh(e, before) ==
    [e EXCEPT !.agenda = NewAgenda(e.agenda, BothMatches(before, e.facts))]

\* engine.declare outside a rule
DeclareFacts(e, fs) == Refresh([e EXCEPT !.facts = DeclareAll(e.facts, fs)], e.facts)

\* _ask that takes a question the catalog lacks for one it has
AskNoLookup(e, cat, q) ==
    IF q \in e.asked_questions THEN e
    ELSE [e EXCEPT !.pending_question = q,
                   !.facts = Declare(e.facts, QuestionAsked(q)),
                   !.asked_questions = e.asked_questions \cup {q},
                   !.ask_log = Append(e.ask_log, q),
                   !.halted = TRUE]

\* _ask without the asked_questions guard
AskUnguarded(e, cat, q) ==
    IF q \in cat
    THEN [e EXCEPT !.pending_question = q,
                   !.facts = Declare(e.facts, QuestionAsked(q)),
                   !.asked_questions = e.asked_questions \cup {q},
                   !.ask_log = Append(e.ask_log, q),
                   !.halted = TRUE]
    ELSE [e EXCEPT !.messages = e.messages \cup {q}]

\* _ask
Ask(e, cat, q) ==
    IF q \in e.asked_questions THEN e
    ELSE IF q \in cat
    THEN [e EXCEPT !.pending_question = q,
                   !.facts = Declare(e.facts, QuestionAsked(q)),
                   !.asked_questions = e.asked_questions \cup {q},
                   !.ask_log = Append(e.ask_log, q),
                   !.halted = TRUE]
    ELSE [e EXCEPT !.messages = e.messages \cup {q}]

\* _change_phase without the retraction of the old phase fact
ChangePhaseKeepOld(e, new) ==
    [e EXCEPT !.facts = Declare(e.facts, CurrentPhase(new)),
              !.phase_log = Append(e.phase_log, [from |-> Phases(e), to |-> new])]

\* _change_phase
ChangePhase(e, new) ==
    [e EXCEPT !.facts = Declare(SelectSeq(e.facts, LAMBDA f : f.k # "CurrentPhase"),
                                CurrentPhase(new)),
              !.phase_log = Append(e.phase_log, [from |-> Phases(e), to |-> new])]

RECURSIVE MarkLifestyleAsked(_, _)
MarkLifestyleAsked(e, qs) ==
    IF qs = << >> THEN e
    ELSE LET q == Head(qs)
         IN  MarkLifestyleAsked(
                 IF q \in e.asked_questions THEN e
                 ELSE [e EXCEPT !.facts = Declare(e.facts, QuestionAsked(q)),
                                !.asked_questions = e.asked_questions \cup {q}],
                 Tail(qs))

\* process_lifestyle_data
ProcessLifestyleData(e) ==
    ChangePhase(
        MarkLifestyleAsked([e EXCEPT !.facts = Declare(e.facts, LifestyleDataProcessed)],
                           << "sun_exposure", "stress_level", "sleep_quality" >>),
        "ANALYSIS")

RECURSIVE FromFacts(_, _)
\* user_responses[question_id] = value for every UserResponse fact, in fact order
FromFacts(r, facts) ==
    IF facts = << >> THEN r
    ELSE LET f == Head(facts)
         IN  FromFacts(IF f.k = "UserResponse" THEN Put(r, f.q, Scalar(f.v)) ELSE r,
                       Tail(facts))

ScoreFacts(sc) ==
    LET keys == SelectSeq(ScoreKeyOrder, LAMBDA c : c \in DOMAIN sc)
    IN  [i \in 1..Len(keys) |-> Fact("ConditionScore", keys[i], sc[keys[i]].score, sc[keys[i]].cf)]

\* calculate_condition_scores
\* the ConditionScore facts calculate_condition_scores declares from the scores
DeclareScores(e) ==
    [e EXCEPT !.scores_set = TRUE, !.facts = DeclareAll(e.facts, ScoreFacts(e.scorer))]

CalculateConditionScores(e) ==
    LET r == FromFacts(e.user_responses, e.facts)
    IN  DeclareScores([e EXCEPT !.user_responses = r,
                                !.scorer = CalculateAllScores(e.scorer, r)])

\* determine_skin_profile (the rule)
DetermineSkinProfileRule(e) ==
    LET p == DetermineSkinProfile(e.user_responses)
    IN  [e EXCEPT !.skin_profile = p, !.profile_set = TRUE,
                  !.facts = Declare(e.facts, Fact("SkinProfile", p.type, 0, 0))]

\* generate_recommendations
\* its end: the recommendations are kept and RecommendationGenerated declared,
\* unless the generator raised
KeepRecommendations(e, recs) ==
    IF recs.raised THEN [e EXCEPT !.raised = TRUE]
    ELSE [e EXCEPT !.recommendations = recs.blocks,
                   !.facts = Declare(e.facts, RecommendationGenerated)]

\* its middle: the severity sv is stored and the recommendations generated
RecommendFor(e, sv, flagged) ==
    LET referral == flagged \/ sv.auto_referral
    IN  KeepRecommendations(
            [e EXCEPT !.condition_classification = sv.classification,
                      !.primary_condition = sv.primary,
                      !.medical_referral_required = referral],
            GenerateAllRecommendations(sv.classification, sv.primary,
                                       e.user_responses, referral))

GenerateRecommendations(e) ==
    RecommendFor(e, DetermineSeverityLevel(ConditionScores(e), e.user_responses),
                 OfKind(Range(e.facts), "MedicalReferralRequired") # {})

\* _display_complete_analysis
DisplayCompleteAnalysis(e) ==
    LET sc == ConditionScores(e)
        r == e.user_responses
        significant == { c \in DOMAIN sc : Weighted(sc[c]) >= 10 * CfUnit }
        healthy == significant = {}
        female == GetEquals(r, "gender", 2)
        \* the try block is left at the first comparison of a list with a number
        cut == \/ IsListAt(r, "menstrual_cycle_acne")
               \/ /\ female /\ SafeGet(r, "menstrual_cycle_acne", 1) > 1
                  /\ IsListAt(r, "hormonal_birth_control")
    IN  [ made |-> TRUE,
          referral |-> e.medical_referral_required,
          severity |-> IF e.condition_classification = "" THEN "UNKNOWN"
                       ELSE e.condition_classification,
          classification |-> IF healthy THEN "HEALTHY" ELSE e.condition_classification,
          primary |-> IF healthy THEN "none" ELSE e.primary_condition,
          conditions |-> { c \in significant : sc[c].score > 0 },
          profile |-> e.skin_profile,
          referral_block |-> e.medical_referral_required
                             /\ "Medical Referral" \in e.recommendations,
          routine |-> ~cut /\ "Skincare Routine" \in e.recommendations,
          lifestyle |-> ~cut /\ "Lifestyle Recommendations" \in e.recommendations,
          is_female |-> ~IsListAt(r, "menstrual_cycle_acne") /\ female ]

ReferralOf ==
    [ detect_vitiligo_facial_involvement |-> "vitiligo/facial_involvement",
      detect_eczema_facial_involvement |-> "eczema/facial_involvement",
      detect_severe_eczema_itching |-> "eczema/severe_symptoms" ]

\* the body of the rule of activation a
Fire(e, cat, a) ==
    LET r == a.rule
    IN  IF r \in DOMAIN AskedBy THEN Ask(e, cat, AskedBy[r])
        ELSE IF r \in DOMAIN MovesTo THEN ChangePhase(e, MovesTo[r])
        ELSE IF r \in DOMAIN ReferralOf
             THEN [e EXCEPT !.facts = Declare(e.facts, MedicalReferralRequired(ReferralOf[r]))]
        ELSE IF r = "process_lifestyle_data" THEN ProcessLifestyleData(e)
        ELSE IF r = "calculate_condition_scores" THEN CalculateConditionScores(e)
        ELSE IF r = "determine_skin_profile" THEN DetermineSkinProfileRule(e)
        ELSE IF r = "generate_recommendations" THEN GenerateRecommendations(e)
        ELSE \* display_results
             [e EXCEPT !.analysis_result = DisplayCompleteAnalysis(e), !.halted = TRUE]

\* ------------------------------------------------------------------------
\* Conflict resolution (experta DepthStrategy): salience, then recency
\* ------------------------------------------------------------------------
FactId(facts, f) == CHOOSE i \in 1..Len(facts) : facts[i] = f

MaxOf(S) == CHOOSE x \in S : \A y \in S : y <= x

\* a is ahead of b: higher salience, or the same salience and the greater list
\* of fact ids sorted newest first
Ahead(facts, a, b) ==
    \/ Salience[a.rule] > Salience[b.rule]
    \/ /\ Salience[a.rule] = Salience[b.rule]
       /\ a.fs # b.fs
       /\ LET diff == { FactId(facts, f) : f \in (a.fs \ b.fs) \cup (b.fs \ a.fs) }
          IN  facts[MaxOf(diff)] \in a.fs

\* a conflict resolution that takes no account of salience or recency
TopAnyOrder(facts, agenda) == agenda

Top(facts, agenda) == { a \in agenda : \A b \in agenda : ~Ahead(facts, b, a) }

\* Two activations of different rules with equal keys leave the agenda in the
\* order in which the library walks the rules, which the rule set does not
\* state. A tie-break names, for each pair of rules that can tie, the one that
\* goes first; every tie-break is modelled, the same one throughout a session.
TiedRules ==
    { { "ask_condition_duration", "ask_condition_severity" },
      { "ask_age", "ask_gender" },
      { "ask_t_zone_oiliness", "ask_cheek_oiliness" } }

TieBreaks ==
    { { "ask_age", d, o } : d \in { "ask_condition_duration", "ask_condition_severity" },
                            o \in { "ask_t_zone_oiliness", "ask_cheek_oiliness" } }

RuleNames == DOMAIN Salience

\* among the activations T that are ahead of all others
PickAmong(T, tb) ==
    IF \E a \in T : a.rule \in tb THEN CHOOSE a \in T : a.rule \in tb
    ELSE CHOOSE a \in T : TRUE

Pick(facts, agenda, tb) == PickAmong(Top(facts, agenda), tb)

\* one turn of run(): activation a leaves the agenda and its rule fires
FireNext(e, cat, a) ==
    Refresh(Fire([e EXCEPT !.agenda = e.agenda \ {a}], cat, a), e.facts)

RECURSIVE RunLoop(_, _, _)
\* KnowledgeEngine.run: fire until halt(), an exception, or an empty agenda
RunLoop(e, cat, tb) ==
    IF e.halted \/ e.raised \/ e.agenda = {} THEN e
    ELSE RunLoop(FireNext(e, cat, Pick(e.facts, e.agenda, tb)), cat, tb)

Run(e, cat, tb) == RunLoop([e EXCEPT !.halted = FALSE, !.raised = FALSE], cat, tb)

\* start_assessment: reset() empties working memory and agenda, not the attributes
StartAssessment(e, cat, tb) ==
    Run(DeclareFacts([e EXCEPT !.facts = << >>, !.agenda = {}],
                     << CurrentPhase("SCREENING") >>), cat, tb)

\* the facts feed_answer declares for a value
ResponseFacts(q, val) == [i \in 1..Len(val.s) |-> UserResponse(q, val.s[i])]

\* feed_answer
FeedAnswer(e, q, val, cat, tb) ==
    LET e1 == [e EXCEPT !.pending_question = NoQuestion,
                        !.user_responses =
                            IF val.s = << >> THEN e.user_responses
                            ELSE Put(e.user_responses, q, Scalar(val.s[Len(val.s)]))]
    IN  Run(DeclareFacts(e1, ResponseFacts(q, val)), cat, tb)

\* ------------------------------------------------------------------------
\* KbsEngineService (services.py): one assessment row, its stored responses
\* and results, and the engine a service instance holds in memory
\* ------------------------------------------------------------------------
NoAge == 0 - 1
NoHours == 0 - 1

\* _get_age_range
GetAgeRange(age) ==
    IF age = NoAge THEN 1
    ELSE IF age < 18 THEN 1
    ELSE IF age <= 25 THEN 2
    ELSE IF age <= 35 THEN 3
    ELSE IF age <= 45 THEN 4
    ELSE 5

\* _convert_sleep_hours_to_quality (0 stands for None)
ConvertSleepHoursToQuality(h) ==
    IF h = NoHours THEN 0
    ELSE IF h <= 4 THEN 5
    ELSE IF h = 5 THEN 4
    ELSE IF h = 6 THEN 3
    ELSE IF h <= 8 THEN 2
    ELSE 1

SunMap == [ minimal |-> 1, light |-> 2, moderate |-> 3, high |-> 4, very_high |-> 5 ]
StressMap == [ very_low |-> 1, low |-> 2, moderate |-> 3, high |-> 4, very_high |-> 5 ]
GenderMapping == [ M |-> 1, F |-> 2 ]

\* The service declares facts only between runs, and only adds facts there. No
\* rule fires in between, so the agenda after a series of declarations is the
\* agenda after the last one: the operators below add the facts, and the caller
\* brings the agenda up to date once (Refresh).

\* declare the answer and the QuestionAsked fact for an answer taken from the
\* user's record, unless the question was asked already
InjectAnswer(e, q, v) ==
    IF q \in e.asked_questions THEN e
    ELSE [e EXCEPT !.facts = DeclareAll(e.facts, << UserResponse(q, v), QuestionAsked(q) >>),
                   !.user_responses = Put(e.user_responses, q, Scalar(v)),
                   !.asked_questions = e.asked_questions \cup {q}]

\* _inject_user_profile_data
InjectUserProfileData(e, u) ==
    LET g == IF u.gender \in DOMAIN GenderMapping THEN GenderMapping[u.gender] ELSE 1
    IN  InjectAnswer(InjectAnswer(e, "gender", g), "age", GetAgeRange(u.age))

\* _inject_lifestyle_data
InjectLifestyleData(e, u) ==
    IF ~u.patient_profile THEN e
    ELSE LET sun == IF u.sun_exposure \in DOMAIN SunMap THEN SunMap[u.sun_exposure] ELSE 1
             stress == IF u.stress_level \in DOMAIN StressMap THEN StressMap[u.stress_level] ELSE 1
             sleep == ConvertSleepHoursToQuality(u.sleep_hours)
             e2 == InjectAnswer(InjectAnswer(e, "sun_exposure", sun), "stress_level", stress)
         IN  IF sleep = 0 THEN e2 ELSE InjectAnswer(e2, "sleep_quality", sleep)

\* _restore_current_phase
RestoreCurrentPhase(e, d) ==
    LET phase == IF d.current_phase \in QuestionPhase THEN d.current_phase ELSE "SCREENING"
        kept == SelectSeq(e.facts, LAMBDA f : f.k # "CurrentPhase")
    IN  [e EXCEPT !.facts = Declare(kept, CurrentPhase(phase))]

RECURSIVE LoadPreviousResponses(_, _)
\* _load_previous_responses: the stored answers in the order they were given
LoadPreviousResponses(e, rs) ==
    IF rs = << >> THEN e
    ELSE LET r == Head(rs)
         IN  LoadPreviousResponses(
                 [e EXCEPT !.facts = DeclareAll(e.facts, ResponseFacts(r.q, r.val)
                                                         \o << QuestionAsked(r.q) >>),
                           !.asked_questions = e.asked_questions \cup {r.q},
                           !.user_responses = Put(e.user_responses, r.q, r.val)],
                 Tail(rs))

AllConditions ==
    << [c |-> "vitiligo", v |-> 2], [c |-> "rosacea", v |-> 3], [c |-> "eczema", v |-> 4],
       [c |-> "psoriasis", v |-> 5], [c |-> "severe_acne", v |-> 6],
       [c |-> "contact_dermatitis", v |-> 7], [c |-> "melasma", v |-> 8] >>

ConditionsToExclude ==
    << "melasma", "vitiligo", "rosacea", "eczema", "psoriasis", "severe_acne",
       "contact_dermatitis" >>

\* _inject_screening_exclusions
InjectScreeningExclusions(e) ==
    LET r == e.user_responses
    IN  IF ~Present(r, "screening_main") THEN e
        ELSE IF 1 \in Elems(r["screening_main"])
        THEN [e EXCEPT !.facts = DeclareAll(e.facts,
                     [i \in 1..Len(ConditionsToExclude) |->
                          ConditionExcluded(ConditionsToExclude[i])])]
        ELSE IF r["screening_main"].list
        THEN LET out == SelectSeq(AllConditions,
                                  LAMBDA x : x.v \notin Elems(r["screening_main"]))
             IN  [e EXCEPT !.facts = DeclareAll(e.facts,
                          [i \in 1..Len(out) |-> ConditionExcluded(out[i].c)])]
        ELSE e

\* the engine _ensure_engine_initialized leaves in the service: the one it
\* holds, or a new one rebuilt from the assessment row (raised when run() raised)
EnsureEngineInitialized(e, d, u, cat, tb) ==
    IF e.live THEN [e EXCEPT !.raised = FALSE]
    ELSE Run(Refresh(InjectScreeningExclusions(
                         LoadPreviousResponses(
                             InjectLifestyleData(
                                 InjectUserProfileData(RestoreCurrentPhase(NewEngine, d), u), u),
                             d.responses)),
                     NewEngine.facts),
             cat, tb)

ForceAttempts == 3

RECURSIVE ForceLoop(_, _, _, _)
\* after an attempt: an exception of run() ends the loop
ForceAgain(e, cat, tb, attempts) ==
    IF e.raised THEN e ELSE ForceLoop(e, cat, tb, attempts)

ForceLoop(e, cat, tb, attempts) ==
    IF attempts >= ForceAttempts \/ SummaryPhase(e) = "COMPLETE"
       \/ e.pending_question # NoQuestion
    THEN e
    ELSE ForceAgain(Run([e EXCEPT !.pending_question = NoQuestion], cat, tb),
                    cat, tb, attempts + 1)

\* _force_continuation_if_stalled
ForceContinuationIfStalled(e, cat, tb) == ForceLoop(e, cat, tb, 0)

\* _update_assessment_phase
UpdateAssessmentPhase(d, e) ==
    IF SummaryPhase(e) = "" THEN d ELSE [d EXCEPT !.current_phase = SummaryPhase(e)]

\* _is_analysis_complete
IsAnalysisComplete(e) == SummaryPhase(e) = "COMPLETE"

Reply(status, question, report, reason) ==
    [ status |-> status, question |-> question, report |-> report, reason |-> reason ]

NoReply == Reply("none", NoQuestion, NoReport, "")

\* _handle_completion with _persist_results
\* _persist_results and the reply of _handle_completion
PersistResults(e, d, report) ==
    [ engine |-> [e EXCEPT !.analysis_result = report],
      db |-> [d EXCEPT !.assessment_status = "COMPLETED", !.results_data = report],
      reply |-> Reply("complete", NoQuestion, report, "") ]

HandleCompletion(e, d) == PersistResults(e, d, DisplayCompleteAnalysis(e))

\* _get_current_state
\* its second half, after _force_continuation_if_stalled left engine e
StateAfterForcing(e, d) ==
    LET d2 == UpdateAssessmentPhase(d, e)
    IN  IF IsAnalysisComplete(e) THEN HandleCompletion(e, d2)
        ELSE [ engine |-> e, db |-> d2,
               reply |-> Reply("in_progress", e.pending_question, NoReport, "") ]

GetCurrentState(e, d, cat, tb) ==
    LET d1 == UpdateAssessmentPhase(d, e)
    IN  IF IsAnalysisComplete(e) THEN HandleCompletion(e, d1)
        ELSE IF e.pending_question = NoQuestion
        THEN StateAfterForcing(ForceContinuationIfStalled(e, cat, tb), d1)
        ELSE [ engine |-> e, db |-> d1,
               reply |-> Reply("in_progress", e.pending_question, NoReport, "") ]

Failed(e, d, reason) ==
    [ engine |-> e, db |-> d, reply |-> Reply("error", NoQuestion, NoReport, reason) ]

\* _save_response_to_db: the row is created only for a question of the catalog
SaveResponseToDb(d, cat, q, val) ==
    IF q \in cat
    THEN [d EXCEPT !.responses = Append(d.responses, [q |-> q, val |-> val])]
    ELSE d

\* start_analysis
\* start_analysis once start_assessment left engine e
StartedAnalysis(e, d, u, cat, tb) ==
    IF e.raised THEN Failed(e, d, "exception")
    ELSE GetCurrentState(
             Refresh(InjectLifestyleData(InjectUserProfileData(e, u), u), e.facts),
             d, cat, tb)

StartAnalysisCall(d, u, cat, tb) ==
    StartedAnalysis(StartAssessment(NewEngine, cat, tb),
                    [d EXCEPT !.assessment_status = "IN_PROGRESS",
                              !.current_phase = "SCREENING"],
                    u, cat, tb)

\* submit_answer
\* submit_answer with an except clause that goes on to _get_current_state
FedAnswerSwallowing(e, d, cat, tb, q, val) ==
    IF q \notin cat THEN Failed(e, d, "not_found")
    ELSE GetCurrentState(e, SaveResponseToDb(d, cat, q, val), cat, tb)

\* submit_answer once feed_answer left engine e
FedAnswer(e, d, cat, tb, q, val) ==
    IF e.raised THEN Failed(e, d, "exception")
    ELSE IF q \notin cat THEN Failed(e, d, "not_found")
    ELSE GetCurrentState(e, SaveResponseToDb(d, cat, q, val), cat, tb)

\* submit_answer once _ensure_engine_initialized left engine e
FeedInitialized(e, d, cat, tb, q, val) ==
    IF e.raised THEN Failed(e, d, "exception")
    ELSE FedAnswer(FeedAnswer(e, q, val, cat, tb), d, cat, tb, q, val)

SubmitAnswerCall(e, d, u, cat, tb, q, val) ==
    FeedInitialized(EnsureEngineInitialized(e, d, u, cat, tb), d, cat, tb, q, val)

\* CurrentQuestionView.get: a new service, _ensure_engine_initialized, _get_current_state
\* the state of an engine _ensure_engine_initialized left
StateOfInitialized(e, d, cat, tb) ==
    IF e.raised THEN Failed(e, d, "exception") ELSE GetCurrentState(e, d, cat, tb)

CurrentQuestionCall(d, u, cat, tb) ==
    StateOfInitialized(EnsureEngineInitialized(NoEngine, d, u, cat, tb), d, cat, tb)

\* get_final_results on a completed assessment
\* the stored results, or the analysis of the engine when nothing is stored
FinalResults(e, d) ==
    IF e.raised THEN Failed(e, d, "exception")
    ELSE [ engine |-> e, db |-> d,
           reply |-> Reply("success", NoQuestion,
                           IF d.results_data.made THEN d.results_data
                           ELSE e.analysis_result, "") ]

GetFinalResultsCall(e, d, u, cat, tb) ==
    FinalResults(EnsureEngineInitialized(e, d, u, cat, tb), d)

\* ------------------------------------------------------------------------
\* The state machine: one user, one assessment, the requests a client makes
\* ------------------------------------------------------------------------
VARIABLES
    engine,     \* the engine of the last service instance (live while it is held)
    db,         \* the assessment row: status, current_phase, responses, results_data
    reply,      \* the last response of the service
    call,       \* the last request: operation, question id, value, question known before
    user,       \* the user's record the service reads
    service,    \* how long a service instance lives: "held" or "per_request"
    ties,       \* the tie-break of the rule engine
    extra,      \* requests made that do not answer the pending question in range
    catalog     \* the names of the QuestionTemplate rows the database has

vars == << engine, db, reply, call, user, service, ties, extra, catalog >>

MaxExtra == 1

\* users the service is run for
Users ==
    { [ gender |-> g, age |-> 30, patient_profile |-> p, sun_exposure |-> "high",
        stress_level |-> "moderate", sleep_hours |-> 7 ] :
      g \in { "M", "F" }, p \in BOOLEAN }

\* a service instance is held for the whole session by a caller that drives
\* the service directly, and is created anew for every request by the views
Lifetimes == { "held", "per_request" }

\* the option lists a client sends for a question, all of them options of it
AnswerChoices(q) ==
    CASE q = "screening_main" -> { << 1 >>, << 2 >>, << 4 >>, << 8 >> }
      [] q = "eczema_location" -> { << 3 >>, << 1, 2 >> }
      [] q = "eczema_itching" -> { << 2 >>, << 4 >> }
      [] q = "vitiligo_location" -> { << 1 >>, << 3 >> }
      [] q = "product_sensitivity" -> { << 1 >>, << 2 >>, << 3 >> }
      [] OTHER -> { << 1 >> }

\* every option of product_sensitivity, and the choices above for the others
AllOptionChoices(q) ==
    IF q = "product_sensitivity"
    THEN { << n >> : n \in 1..QUESTIONS_DICT[q] }
    ELSE AnswerChoices(q)

\* an answer is in range when every index is an option of the question and a
\* single-choice question gets one index
InRange(cat, q, s) ==
    /\ q \in cat
    /\ s # << >>
    /\ \A i \in 1..Len(s) : s[i] \in 1..QUESTIONS_DICT[q]
    /\ q \notin MultiSelect => Len(s) = 1

\* answers no option list allows, sent for the pending question: an index past
\* the last option, two indices for a single-choice question
Malformed(q) ==
    IF q = "dryness_feeling" THEN { << 99 >>, << 1, 2 >> } ELSE {}

\* in-range answers to a question of the catalog other than the pending one,
\* sent when the client has been given the question or the reply `at`
OffScript ==
    { [ at |-> "complete", q |-> "vitiligo_spots", s |-> << 3 >> ],
      [ at |-> "environmental_sensitivity", q |-> "product_sensitivity", s |-> << 1 >> ] }

UnknownQuestion == "no_such_question"

\* where the client names a question the catalog does not have
UnknownAt == { "dryness_feeling", "complete" }

\* where the caller that holds the service calls start_assessment again
StartAgainAt == { "dryness_feeling" }

\* what the client has in hand: the pending question, or the kind of reply
InHand == IF reply.status = "in_progress" THEN reply.question ELSE reply.status

NoCall == [ op |-> "none", q |-> NoQuestion, s |-> << >>, before |-> NoQuestion ]

InitDb ==
    [ assessment_status |-> "STARTED", current_phase |-> "SCREENING",
      responses |-> << >>, results_data |-> NoReport ]

Init ==
    /\ engine = NoEngine
    /\ db = InitDb
    /\ reply = NoReply
    /\ call = NoCall
    /\ user \in Users
    /\ service \in Lifetimes
    /\ ties \in TieBreaks
    /\ extra = 0
    /\ catalog = Catalog

\* between two calls only the agenda, working memory and attributes matter;
\* the engine of a per-request service is gone with the request
Settle(e) == [e EXCEPT !.raised = FALSE, !.halted = FALSE, !.live = (service = "held")]

Returns(w, op, q, s) ==
    /\ engine' = Settle(w.engine)
    /\ db' = w.db
    /\ reply' = w.reply
    /\ call' = [ op |-> op, q |-> q, s |-> s, before |-> reply.question ]
    /\ UNCHANGED << user, service, ties, catalog >>

Submit(q, s) ==
    Returns(SubmitAnswerCall(engine, db, user, catalog, ties, q, ListVal(s)), "submit", q, s)

\* StartAssessmentView: a new assessment is started once
StartAnalysis ==
    /\ db.assessment_status = "STARTED"
    /\ Returns(StartAnalysisCall(db, user, catalog, ties), "start", NoQuestion, << >>)
    /\ UNCHANGED extra

\* the client answers the question it was given, within its options
AnswerPending ==
    /\ reply.status = "in_progress"
    /\ reply.question # NoQuestion
    /\ \E s \in AnswerChoices(reply.question) : Submit(reply.question, s)
    /\ UNCHANGED extra

\* the client answers the question it was given with a value outside its options
SubmitMalformed ==
    /\ extra < MaxExtra
    /\ reply.status = "in_progress"
    /\ reply.question # NoQuestion
    /\ \E s \in Malformed(reply.question) : Submit(reply.question, s)
    /\ extra' = extra + 1

\* the client answers a question of the catalog that is not the pending one
SubmitOffScript ==
    /\ extra < MaxExtra
    /\ \E o \in OffScript : o.at = InHand /\ Submit(o.q, o.s)
    /\ extra' = extra + 1

\* the client names a question the catalog does not have
SubmitUnknown ==
    /\ extra < MaxExtra
    /\ InHand \in UnknownAt
    /\ Submit(UnknownQuestion, << 1 >>)
    /\ extra' = extra + 1

\* CurrentQuestionView.get, which a client of the views calls when it has no
\* question to answer
Resume ==
    /\ service = "per_request"
    /\ db.assessment_status = "IN_PROGRESS"
    /\ ~(reply.status = "in_progress" /\ reply.question # NoQuestion)
    /\ call.op # "resume"
    /\ Returns(CurrentQuestionCall(db, user, catalog, ties), "resume", NoQuestion, << >>)
    /\ UNCHANGED extra

\* the results view of a completed assessment
GetFinalResults ==
    /\ db.assessment_status = "COMPLETED"
    /\ Returns(GetFinalResultsCall(engine, db, user, catalog, ties), "final", NoQuestion, << >>)
    /\ UNCHANGED extra

\* start_assessment called again on the engine a service holds
StartAgain ==
    /\ extra < MaxExtra
    /\ engine.live
    /\ InHand \in StartAgainAt
    /\ engine' = Settle(StartAssessment(engine, catalog, ties))
    /\ call' = [ op |-> "start_assessment", q |-> NoQuestion, s |-> << >>,
                 before |-> reply.question ]
    /\ extra' = extra + 1
    /\ UNCHANGED << db, reply, user, service, ties, catalog >>

Next ==
    \/ StartAnalysis
    \/ AnswerPending
    \/ SubmitMalformed
    \/ SubmitOffScript
    \/ SubmitUnknown
    \/ Resume
    \/ GetFinalResults
    \/ StartAgain

Spec == Init /\ [][Next]_vars

\* the client answers the question it was given with any of its options
AnswerAnyOption ==
    /\ reply.status = "in_progress"
    /\ reply.question # NoQuestion
    /\ \E s \in AllOptionChoices(reply.question) : Submit(reply.question, s)
    /\ UNCHANGED extra

\* a session in which every request answers the pending question in range
NextAnswering ==
    \/ StartAnalysis
    \/ AnswerAnyOption

\* the client goes on as long as it has a question to answer
SpecAnswering ==
    Init /\ [][NextAnswering]_vars /\ WF_vars(StartAnalysis) /\ WF_vars(AnswerAnyOption)

\* the rows a catalog may lack: a follow-up of a screening choice, a
\* question a phase move waits for, and a question of the screening phase
MissingQuestions == { "vitiligo_spots", "skin_tone", "condition_severity" }

\* a database whose question catalog lacks one QuestionTemplate row
InitMissing ==
    /\ engine = NoEngine
    /\ db = InitDb
    /\ reply = NoReply
    /\ call = NoCall
    /\ user \in Users
    /\ service \in Lifetimes
    /\ ties \in TieBreaks
    /\ extra = 0
    /\ catalog \in { Catalog \ {q} : q \in MissingQuestions }

NextMissing ==
    \/ StartAnalysis
    \/ AnswerPending
    \/ Resume
    \/ GetFinalResults

SpecMissing == InitMissing /\ [][NextMissing]_vars

\* sessions answered over the condition questions: a woman with a patient
\* profile and a man without one
WideUsers ==
    { u \in Users : (u.gender = "F") = u.patient_profile }

\* the option lists sent for the questions on conditions, all of them
\* options of the question, several indices only for multi-select questions
WideChoices(q) ==
    CASE q = "screening_main" -> { << 1 >>, << 2 >>, << 8 >> }
      [] q = "family_history" -> { << 1 >>, << 2 >>, << 2, 3 >>, << 3, 2 >> }
      [] q = "vitiligo_spots" -> { << 1 >>, << 4 >> }
      [] q = "vitiligo_location" -> { << 3 >>, << 2, 3 >> }
      [] q = "melasma_patches" -> { << 2 >>, << 4 >> }
      [] q = "melasma_triggers" -> { << 2 >> }
      [] q = "melasma_pregnancy_hormones" -> { << 2 >> }
      [] OTHER -> { << 1 >> }

InitWide ==
    /\ engine = NoEngine
    /\ db = InitDb
    /\ reply = NoReply
    /\ call = NoCall
    /\ user \in WideUsers
    /\ service \in Lifetimes
    /\ ties \in TieBreaks
    /\ extra = 0
    /\ catalog = Catalog

\* the client answers the question it was given
AnswerWide ==
    /\ reply.status = "in_progress"
    /\ reply.question # NoQuestion
    /\ \E s \in WideChoices(reply.question) :
           InRange(catalog, reply.question, s) /\ Submit(reply.question, s)
    /\ UNCHANGED extra

NextWide ==
    \/ StartAnalysis
    \/ AnswerWide
    \/ GetFinalResults

SpecWide == InitWide /\ [][NextWide]_vars

\* answer sets handed to the scorer of an engine: each answer a single index
ScorerInputs ==
    { [ screening_main |-> Scalar(a), gender |-> Scalar(g), family_history |-> Scalar(f),
        vitiligo_spots |-> Scalar(v), sun_exposure |-> Scalar(x) ] :
      a \in { 1, 2, 8 }, g \in { 1, 2 }, f \in { 1, 2 }, v \in { 1, 4 }, x \in { 1, 4 } }

\* a new engine, with its own ConditionScorer, that holds one of the answer sets
InitScorer ==
    /\ engine \in { [NewEngine EXCEPT !.user_responses = r] : r \in ScorerInputs }
    /\ db = InitDb
    /\ reply = NoReply
    /\ call = NoCall
    /\ user \in { u \in Users : u.gender = "F" /\ u.patient_profile }
    /\ service = "held"
    /\ ties \in TieBreaks
    /\ extra = 0
    /\ catalog = Catalog

\* engine.condition_scorer.calculate_all_scores(engine.user_responses)
Scored(e) ==
    [e EXCEPT !.scorer = CalculateAllScores(e.scorer, e.user_responses),
              !.scores_set = TRUE]

\* the first call on the engine's scorer
ScoreOnce ==
    /\ call.op = "none"
    /\ engine' = Scored(engine)
    /\ call' = [NoCall EXCEPT !.op = "scores"]
    /\ UNCHANGED << db, reply, user, service, ties, extra, catalog >>

\* a second call on the same scorer with the same answers
ScoreAgain ==
    /\ call.op = "scores"
    /\ engine' = Scored(engine)
    /\ call' = [NoCall EXCEPT !.op = "scores_again"]
    /\ UNCHANGED << db, reply, user, service, ties, extra, catalog >>

\* start_assessment on the engine, then a second call with the same answers
RestartAndScore ==
    /\ call.op = "scores"
    /\ engine' = Scored(Settle(StartAssessment(engine, catalog, ties)))
    /\ call' = [NoCall EXCEPT !.op = "restart_scores"]
    /\ UNCHANGED << db, reply, user, service, ties, extra, catalog >>

NextScorer ==
    \/ ScoreOnce
    \/ ScoreAgain
    \/ RestartAndScore

SpecScorer == InitScorer /\ [][NextScorer]_vars

\* ------------------------------------------------------------------------
\* Properties
\* ------------------------------------------------------------------------
PhaseFacts(e) == { i \in 1..Len(e.facts) : e.facts[i].k = "CurrentPhase" }

AskedFacts(e, q) == { i \in 1..Len(e.facts) : e.facts[i] = QuestionAsked(q) }

Started == db.assessment_status # "STARTED"

\* the last request answered, in range, the question the client had been given
OnScript ==
    /\ call.op = "submit"
    /\ call.before # NoQuestion
    /\ call.q = call.before
    /\ InRange(Catalog, call.q, call.s)

CompletionFacts(e) ==
    /\ OfKind(Range(e.facts), "ConditionScore") # {}
    /\ OfKind(Range(e.facts), "SkinProfile") # {}
    /\ RecommendationGenerated \in Range(e.facts)

\* C1: a session in which every pending question is answered in range ends
\* with a report, whatever the in-range answers are (product_sensitivity 1 to 5
\* included): whenever the client is left without a question to answer, the
\* service has returned status complete with the report. Every request adds a
\* stored answer, so a session that does not end this way ends in a state that
\* violates this. The user has a patient profile, so that the lifestyle
\* answers the analysis reads are there.
C1_AnsweringEndsWithReport ==
    (Started /\ user.patient_profile
     /\ ~(reply.status = "in_progress" /\ reply.question # NoQuestion))
        => (reply.status = "complete" /\ reply.report.made)

\* C2: when start_analysis, or a submit_answer that answers the pending
\* question in range, returns in_progress, a question is pending: the engine
\* is never at rest before COMPLETE without a pending question.
C2_NeverAtRestWithoutQuestion ==
    (extra = 0 /\ (call.op = "start" \/ OnScript) /\ reply.status = "in_progress")
        => (reply.question # NoQuestion /\ engine.pending_question # NoQuestion)

\* C3: in every state of a session, started or rebuilt from the stored phase
\* and answers, phase COMPLETE or a produced report implies that ConditionScore
\* facts, a SkinProfile fact and the RecommendationGenerated fact are present.
C3_CompletionInvariant ==
    (extra = 0 /\ (SummaryPhase(engine) = "COMPLETE" \/ engine.analysis_result.made
                   \/ reply.status = "complete"))
        => CompletionFacts(engine)

\* C4: when recommendations have been generated in a session that holds a
\* MedicalReferralRequired fact, the classification is SEVERE.
C4_ReferralOverride ==
    (extra = 0 /\ RecommendationGenerated \in Range(engine.facts)
     /\ OfKind(Range(engine.facts), "MedicalReferralRequired") # {})
        => engine.condition_classification = "SEVERE"

\* C5: once the assessment is completed, every later request leaves the phase
\* at COMPLETE, sets no pending question, keeps the stored report and returns
\* no other report.
C5_CompleteIsTerminal ==
    [][ db.assessment_status = "COMPLETED"
            => /\ SummaryPhase(engine') = "COMPLETE"
               /\ db'.current_phase = "COMPLETE"
               /\ engine'.pending_question = NoQuestion
               /\ db'.results_data = db.results_data
               /\ reply'.report.made => reply'.report = db.results_data ]_vars

\* C6: every state of a session holds exactly one CurrentPhase fact, after
\* every _change_phase and after the phase restore of a rebuilt session.
C6_OnePhaseFact == Started => Cardinality(PhaseFacts(engine)) = 1

\* C6 witness: a rebuilt session (phase restored from the row) in which a rule
\* has then changed the phase.
C6_Witness ==
    /\ service = "per_request"
    /\ call.op = "submit"
    /\ Len(engine.phase_log) >= 1
    /\ Cardinality(PhaseFacts(engine)) = 1

\* C7: every phase change made by a rule goes from the one current phase to
\* its immediate successor in the order of QuestionPhase.
C7_PhaseSuccessor ==
    \A i \in 1..Len(engine.phase_log) :
        LET c == engine.phase_log[i]
        IN  \E p \in c.from : c.from = {p} /\ PhaseIndex(c.to) = PhaseIndex(p) + 1

\* C7 witness: one engine session went through all eight phase changes.
C7_Witness ==
    /\ Len(engine.phase_log) = Len(PhaseOrder) - 1
    /\ SummaryPhase(engine) = "COMPLETE"

\* C8: within one engine session each question id has at most one
\* QuestionAsked fact and becomes the pending question at most once.
C8_NoDuplicateQuestions ==
    /\ \A q \in Catalog : Cardinality(AskedFacts(engine, q)) <= 1
    /\ \A i, j \in 1..Len(engine.ask_log) :
           engine.ask_log[i] = engine.ask_log[j] => i = j

\* C8 witness: start_assessment was called again on an engine that had asked
\* several questions, and the first question is not asked again.
C8_Witness ==
    /\ call.op = "start_assessment"
    /\ Len(engine.ask_log) >= 2
    /\ engine.ask_log[1] = "screening_main"
    /\ SummaryPhase(engine) = "SCREENING"

\* C9: a submission outside the question's options, or of the wrong arity, is
\* answered with an error, declares no UserResponse fact and leaves the pending
\* question as it was.
C9_MalformedRejected ==
    (call.op = "submit" /\ call.q \in Catalog /\ ~InRange(Catalog, call.q, call.s))
        => /\ reply.status = "error"
           /\ \A i \in 1..Len(call.s) : UserResponse(call.q, call.s[i]) \notin Range(engine.facts)
           /\ engine.pending_question = call.before

\* C10: a submission for a question the catalog does not have is answered with
\* the not-found error, stores no answer, never makes that id the pending
\* question, and leaves the question that was pending as the pending question.
C10_UnknownQuestionKeepsSession ==
    (call.op = "submit" /\ call.q \notin Catalog /\ call.before # NoQuestion)
        => /\ reply.reason = "not_found"
           /\ \A i \in 1..Len(db.responses) : db.responses[i].q # call.q
           /\ engine.pending_question # call.q
           /\ engine.pending_question = call.before

\* the ask activations of the engine's working memory that are no longer on
\* its agenda, which are the ones that have fired
FiredAsks(e) ==
    { a \in Matches(Range(e.facts)) \ e.agenda : a.rule \in DOMAIN AskedBy }

\* C11: an ask rule that fires for a question the catalog lacks logs an error
\* and does nothing else: no QuestionAsked fact, no pending question, no halt
\* (the run goes on until no rule is left or a catalogued question halts it),
\* and the question never becomes the pending one
C11_MissingQuestionSkipped ==
    \A q \in Catalog \ catalog :
        /\ QuestionAsked(q) \notin Range(engine.facts)
        /\ q \notin engine.asked_questions
        /\ q \notin Range(engine.ask_log)
        /\ engine.pending_question # q
        /\ reply.question # q
        /\ \A a \in FiredAsks(engine) : AskedBy[a.rule] = q => q \in engine.messages
        /\ (engine.live /\ reply.status = "in_progress" /\ reply.question = NoQuestion)
               => engine.agenda = {}

\* the rule asking for the missing question has fired and the same run went
\* on to ask a question of a later phase
C11_Witness ==
    /\ "vitiligo_spots" \notin catalog
    /\ "vitiligo_spots" \in engine.messages
    /\ reply.question = "t_zone_oiliness"
    /\ call.op = "submit"
    /\ call.before \in { "skin_tone", "family_history" }

\* the answers stored for question q, in the order they were given
StoredAnswers(q) ==
    SelectSeq(db.responses, LAMBDA r : r.q = q)

\* the screening answer of the session is option 1 alone
ScreenedNoProblem ==
    /\ StoredAnswers("screening_main") # << >>
    /\ \A r \in Range(StoredAnswers("screening_main")) : r.val.s = << 1 >>

ScreeningFollowUps == { "condition_duration", "condition_severity", "previous_treatments" }

\* C12: when screening_main is answered with option 1 alone, none of
\* condition_duration, condition_severity and previous_treatments is ever
\* asked, and the run that takes the answer moves from SCREENING to BASIC_INFO
C12_NoProblemSkipsFollowUps ==
    ScreenedNoProblem =>
        /\ \A q \in ScreeningFollowUps :
               /\ q \notin Range(engine.ask_log)
               /\ q \notin engine.asked_questions
               /\ QuestionAsked(q) \notin Range(engine.facts)
               /\ engine.pending_question # q
               /\ reply.question # q
        /\ (call.op = "submit" /\ call.q = "screening_main")
               => /\ SummaryPhase(engine) = "BASIC_INFO"
                  /\ db.current_phase = "BASIC_INFO"
                  /\ engine.phase_log = << [from |-> {"SCREENING"}, to |-> "BASIC_INFO"] >>

\* option 1 has just been given and a basic-information question is pending
C12_Witness ==
    /\ ScreenedNoProblem
    /\ call.op = "submit"
    /\ call.q = "screening_main"
    /\ call.s = << 1 >>
    /\ SummaryPhase(engine) = "BASIC_INFO"
    /\ reply.question \in { "skin_tone", "family_history" }

\* C13: in a session whose screening answer is option 1 alone, the final
\* report names no primary condition, whatever the other answers are
C13_NoProblemNoPrimary ==
    (ScreenedNoProblem /\ reply.status = "complete" /\ reply.report.made)
        => reply.report.primary = "none"

\* C14: every ConditionScore fact and every condition entry of the report has
\* a score from 0 to 100 and a confidence from 0 to 1, also for a user whose
\* gender is male or not answered and who gave no melasma evidence
C14_ScoresWithinCaps ==
    /\ \A f \in OfKind(Range(engine.facts), "ConditionScore") :
           f.v >= 0 /\ f.v <= 100 /\ f.c >= 0 /\ f.c <= CfUnit
    /\ \A c \in reply.report.conditions :
           c \in DOMAIN ConditionScores(engine) =>
               LET d == ConditionScores(engine)[c]
               IN  d.score >= 0 /\ d.score <= 100 /\ d.cf >= 0 /\ d.cf <= CfUnit

\* the option list the client gave for question q, empty when it gave none
GivenAnswer(q) ==
    LET a == StoredAnswers(q)
    IN  IF a = << >> THEN << >> ELSE a[Len(a)].val.s

\* the points of _calculate_vitiligo_score for the option lists as given: its
\* branches for a list of family_history and a list of vitiligo_location
VitiligoPointsInFull ==
    LET spots == IF GivenAnswer("vitiligo_spots") = << >> THEN 1
                 ELSE GivenAnswer("vitiligo_spots")[1]
        k == Len(GivenAnswer("vitiligo_location"))
    IN  (IF GivenAnswer("screening_main") = << 2 >> THEN 30 ELSE 0)
        + (IF 2 \in Range(GivenAnswer("family_history")) THEN 20 ELSE 0)
        + (IF spots > 1 THEN 25 + (spots - 2) * 5 ELSE 0)
        + (IF k > 1 THEN 3 * k ELSE 0)

\* C15: multi-select answers reach the scorer in full: k > 1 locations of
\* vitiligo_location add 3 * k points to vitiligo, and index 2 of
\* family_history adds the family points whatever else is selected with it
C15_MultiSelectScoredInFull ==
    (engine.scores_set /\ reply.status = "complete")
        => ScoreOf(engine.scorer, "vitiligo") = Min(VitiligoPointsInFull, 100)

\* the answers the engine scored, with melasma_pregnancy_hormones held as the
\* option list the client gave
WithHormonesAsGiven(r) ==
    Put(r, "melasma_pregnancy_hormones", ListVal(GivenAnswer("melasma_pregnancy_hormones")))

\* C16: a session whose melasma_pregnancy_hormones answer includes option 2
\* and whose condition_severity is at most 2 is classified with the relaxed
\* thresholds (SEVERE from an adjusted score of 90, MODERATE from 70)
C16_PregnancyLeniency ==
    ( /\ 2 \in Range(GivenAnswer("melasma_pregnancy_hormones"))
      /\ GivenAnswer("condition_severity") \in { << 1 >>, << 2 >> }
      /\ engine.scores_set
      /\ reply.status = "complete"
      /\ reply.report.made )
        => reply.report.severity =
               DetermineSeverityLevel(ConditionScores(engine),
                                      WithHormonesAsGiven(engine.user_responses)).classification

\* C18: the scorer is a function of the answer set alone: a second call of
\* calculate_all_scores on the same scorer, or on the scorer of an engine
\* started again, returns the scores of the answers and nothing accumulates
C18_ScorerIsPure ==
    call.op \in { "scores", "scores_again", "restart_scores" }
        => engine.scorer = CalculateAllScores(ScorerInit, engine.user_responses)

RECURSIVE GivenReversed(_, _)
\* the answers calculate_condition_scores takes from the UserResponse facts
\* when the client gives every option list rs holds in the reverse order: the
\* last fact of a question then carries the first index of the list
GivenReversed(r, rs) ==
    IF rs = << >> THEN r
    ELSE GivenReversed(Put(r, Head(rs).q, Scalar(Head(rs).val.s[1])), Tail(rs))

\* C19: the scores do not depend on the order of the answers: a session that
\* gives the same options for every question, with the indices of the
\* multi-select answers in another order, gets the same condition scores
C19_ScoresOrderIndependent ==
    (engine.scores_set /\ reply.status = "complete")
        => engine.scorer =
               CalculateAllScores(ScorerInit, GivenReversed(engine.user_responses, db.responses))

\* the conditions the engine holds a ConditionExcluded fact for
Excluded(e) == { f.q : f \in OfKind(Range(e.facts), "ConditionExcluded") }

\* C20: a condition excluded from the screening answer is never the primary
\* condition of the report and is not in its list of conditions, whatever
\* score the follow-ups of the family history give it
C20_ExcludedNeverReported ==
    (reply.status = "complete" /\ reply.report.made)
        => \A c \in Excluded(engine) :
               reply.report.primary # c /\ c \notin reply.report.conditions

C22_ReferralPrecedence ==
    engine.condition_classification # ""
        => engine.recommendations =
               { IF engine.medical_referral_required
                    \/ engine.condition_classification = "SEVERE"
                 THEN "Medical Referral" ELSE "Skincare Routine",
                 "Lifestyle Recommendations" }

PastPhase(e, p) == \E q \in Phases(e) : PhaseIndex(q) > PhaseIndex(p)

AllAsked(e, qs) == \A q \in qs : QuestionAsked(q) \in Range(e.facts)

\* C24: phase gates: the phase is past SCREENING only if screening_main was
\* asked and its answer is option 1 or the three screening follow-ups were
\* asked, past BASIC_INFO only if age, gender, skin_tone and family_history
\* were asked, past OILINESS_ASSESSMENT only if t_zone_oiliness,
\* cheek_oiliness and pore_size were asked, and past HYDRATION_ASSESSMENT only
\* if dryness_feeling was asked and answered 1 or moisturizer_response asked
C24_PhaseGates ==
    /\ PastPhase(engine, "SCREENING")
           => /\ AllAsked(engine, { "screening_main" })
              /\ \/ UserResponse("screening_main", 1) \in Range(engine.facts)
                 \/ AllAsked(engine, ScreeningFollowUps)
    /\ PastPhase(engine, "BASIC_INFO")
           => AllAsked(engine, { "age", "gender", "skin_tone", "family_history" })
    /\ PastPhase(engine, "OILINESS_ASSESSMENT")
           => AllAsked(engine, { "t_zone_oiliness", "cheek_oiliness", "pore_size" })
    /\ PastPhase(engine, "HYDRATION_ASSESSMENT")
           => /\ AllAsked(engine, { "dryness_feeling" })
              /\ \/ UserResponse("dryness_feeling", 1) \in Range(engine.facts)
                 \/ AllAsked(engine, { "moisturizer_response" })

C24_Witness ==
    /\ call.op = "submit"
    /\ PastPhase(engine, "HYDRATION_ASSESSMENT")
    /\ UserResponse("screening_main", 1) \notin Range(engine.facts)
    /\ AllAsked(engine, ScreeningFollowUps)
    /\ AllAsked(engine, { "skin_tone", "pore_size", "dryness_feeling" })
    /\ UserResponse("dryness_feeling", 1) \in Range(engine.facts)

\* the ask rules on the agenda of e whose question is in the catalog and unasked
EligibleAsks(e, cat) ==
    { a \in e.agenda : /\ a.rule \in DOMAIN AskedBy
                       /\ AskedBy[a.rule] \in cat
                       /\ AskedBy[a.rule] \notin e.asked_questions }

RECURSIVE RunInOrder(_, _, _)
\* in the run of e no phase-transition rule fires while an ask rule is eligible
RunInOrder(e, cat, tb) ==
    IF e.halted \/ e.raised \/ e.agenda = {} THEN TRUE
    ELSE LET a == Pick(e.facts, e.agenda, tb)
         IN  /\ a.rule \in DOMAIN MovesTo => EligibleAsks(e, cat) = {}
             /\ RunInOrder(FireNext(e, cat, a), cat, tb)

\* the condition follow-ups whose ask rule matches the facts of e: triggered, not asked
TriggeredFollowUps(e, cat) ==
    { AskedBy[a.rule] : a \in { b \in SpecificConditionRules(Range(e.facts)) :
                                    b.rule \in DOMAIN AskedBy } } \cap cat

\* C25: when the answers are given in the order asked, in the run that takes
\* an answer no phase-transition rule fires while an ask rule for a
\* catalogued, unasked question is eligible, and when the run leaves the
\* engine past SPECIFIC_CONDITION every triggered follow-up has been asked
C25_AsksBeforeMoves ==
    [][ call'.op = "submit" =>
            LET init == EnsureEngineInitialized(engine, db, user, catalog, ties)
                fed == DeclareFacts(init, ResponseFacts(call'.q, ListVal(call'.s)))
            IN  ~init.raised =>
                    /\ RunInOrder([fed EXCEPT !.halted = FALSE], catalog, ties)
                    /\ PastPhase(engine', "SPECIFIC_CONDITION")
                           => TriggeredFollowUps(engine', catalog) = {} ]_vars

C25_Witness ==
    /\ call.op = "submit"
    /\ call.q = "vitiligo_location" /\ call.before = "vitiligo_location"
    /\ SummaryPhase(engine) = "OILINESS_ASSESSMENT"
    /\ AllAsked(engine, { "vitiligo_spots", "vitiligo_location" })
    /\ engine.phase_log # << >>
    /\ engine.phase_log[Len(engine.phase_log)].from = { "SPECIFIC_CONDITION" }

\* the referral reasons whose triggering UserResponse fact is among the facts F
FlaggedBy(F) ==
    { ReferralOf["detect_eczema_facial_involvement"] : u \in { f \in URs(F, "eczema_location") : f.v = 1 } }
    \cup { ReferralOf["detect_vitiligo_facial_involvement"] :
               u \in { f \in URs(F, "vitiligo_location") : f.v \in { 1, 5 } } }
    \cup { ReferralOf["detect_severe_eczema_itching"] :
               u \in { f \in URs(F, "eczema_itching") : f.v >= 4 } }

\* C26: referral flags are raised in any phase and kept: when the engine holds
\* a UserResponse eczema_location = 1, vitiligo_location in {1, 5} or
\* eczema_itching >= 4, it holds the matching MedicalReferralRequired fact
\* whatever the phase, the referral is required once the recommendations are
\* generated, and a report returned has medical_referral.required true
C26_ReferralKept ==
    LET F == Range(engine.facts)
    IN  /\ \A cr \in FlaggedBy(F) : MedicalReferralRequired(cr) \in F
        /\ (FlaggedBy(F) # {} /\ RecommendationGenerated \in F)
               => engine.medical_referral_required
        /\ (FlaggedBy(F) # {} /\ reply.report.made)
               => reply.report.referral /\ reply.report.referral_block

\* C27: a question missing from the catalog does not block the session: with
\* one QuestionTemplate row absent, a call that finds every asked question
\* answered has carried the engine on to COMPLETE, so a reply in progress
\* always gives the next question (sessions that answer product_sensitivity
\* with option 1, which take the direct move to hydration)
C27_MissingQuestionDoesNotBlock ==
    ( /\ catalog # Catalog
      /\ call.op \in { "start", "submit", "resume" }
      /\ \A r \in Range(StoredAnswers("product_sensitivity")) : r.val.s = << 1 >>
      /\ reply.status = "in_progress" )
        => reply.question # NoQuestion

LifestyleQuestions == { "sun_exposure", "stress_level", "sleep_quality" }

\* C28: a call that answers the pending question and whose run enters
\* LIFESTYLE is carried through ANALYSIS to COMPLETE in that run and returns
\* the report without raising, with or
\* without the lifestyle answers of a patient profile; the lifestyle questions
\* are never presented to the client
C28_LifestyleRunsToComplete ==
    /\ reply.question \notin LifestyleQuestions
    /\ (OnScript /\ PastPhase(engine, "HYDRATION_ASSESSMENT"))
           => /\ SummaryPhase(engine) = "COMPLETE"
              /\ reply.status = "complete"
              /\ reply.report.made

\* C29: in every report returned exactly one of recommendations.medical_referral
\* and recommendations.skincare_routine is filled, and a report classified
\* SEVERE has medical_referral.required true and the referral block filled,
\* also when SEVERE comes from the numeric thresholds with no referral flag
C29_ReferralOrRoutine ==
    reply.report.made
        => /\ reply.report.referral_block # reply.report.routine
           /\ reply.report.classification = "SEVERE"
                  => reply.report.referral /\ reply.report.referral_block

\* C30: answers are accepted only for the pending question: a submit_answer
\* for another question id stores no answer, and on a held engine it asserts
\* no fact, fires no rule and leaves the pending question as it was
C30_OnlyPendingAnswered ==
    [][ (call'.op = "submit" /\ call'.q # call'.before)
            => /\ db'.responses = db.responses
               /\ engine.live
                      => /\ engine'.facts = engine.facts
                         /\ engine'.pending_question = engine.pending_question ]_vars

====
